---------------------------- MODULE Spec2Model ----------------------------
(***************************************************************************)
(* Model of code-understanding/scripts/code_analyzer.py: the CodeAnalyzer  *)
(* that walks a directory tree and writes (or previews) one README.md per  *)
(* directory, backing up any README.md already there.                      *)
(*                                                                         *)
(* The filesystem is a function from paths (sequences of entry names,      *)
(* relative to the analysis root) to entries.  One invocation of           *)
(* generate_hierarchical_readmes is StartRun, then one ProcessDirectory    *)
(* per call of the nested process_directory, then Finish.  The recursion   *)
(* of process_directory is kept as an explicit stack of pending calls.     *)
(*                                                                         *)
(* The module is ASCII: every CJK literal of the source is represented by  *)
(* its length in characters (len() in Python counts code points).          *)
(***************************************************************************)
EXTENDS Integers, Sequences, FiniteSets, TLC

VARIABLES
    fs,        \* the filesystem: path -> entry
    rev,       \* directory-entry order of this filesystem (see iterdir)
    now,       \* the wall clock, in seconds
    pc,        \* "idle", "walking", "done", "aborted" or "noroot"
    dry_run,   \* the dry_run argument of the current invocation
    stack,     \* pending process_directory calls, innermost first
    out,       \* console lines of the current invocation, with what was rendered
    fs0,       \* the filesystem when the current invocation started
    prev,      \* the invocation before the current one: [dry, out, end, fs0]
    nruns      \* number of invocations started

vars == <<fs, rev, now, pc, dry_run, stack, out, fs0, prev, nruns>>

----------------------------------------------------------------------------
(* Bounds of the model.                                                    *)

MaxRuns == 2      \* invocations in one behaviour
MaxFaults == 2    \* faulty (directory, operation) pairs of a tree

----------------------------------------------------------------------------
(* Strings.  TLC gives Len, SubSeq and \o on strings; case folding and the *)
(* character order are tables.                                             *)

Upper == "ABCDEFGHIJKLMNOPQRSTUVWXYZ"
Lower == "abcdefghijklmnopqrstuvwxyz"
\* the characters of the model's names, in code point order
Alphabet == ".0123456789ABCDEFGHIJKLMNOPQRSTUVWXYZ_abcdefghijklmnopqrstuvwxyz"

Chars == {SubSeq(Alphabet, i, i) : i \in 1..Len(Alphabet)}

\* ord(c), up to the characters the model does not use
Ord == [c \in Chars |-> CHOOSE i \in 1..Len(Alphabet) : SubSeq(Alphabet, i, i) = c]

\* c.lower()
LowerChar ==
    [c \in Chars |->
        IF \E i \in 1..Len(Upper) : SubSeq(Upper, i, i) = c
        THEN LET i == CHOOSE j \in 1..Len(Upper) : SubSeq(Upper, j, j) = c
             IN SubSeq(Lower, i, i)
        ELSE c]

RECURSIVE LowerFrom(_, _)
LowerFrom(s, i) ==
    IF i > Len(s) THEN "" ELSE LowerChar[SubSeq(s, i, i)] \o LowerFrom(s, i + 1)

\* str.lower()
LowerStr(s) == LowerFrom(s, 1)

RECURSIVE LessFrom(_, _, _)
LessFrom(a, b, i) ==
    IF i > Len(b) THEN FALSE
    ELSE IF i > Len(a) THEN TRUE
    ELSE LET x == Ord[SubSeq(a, i, i)]
             y == Ord[SubSeq(b, i, i)]
         IN IF x # y THEN x < y ELSE LessFrom(a, b, i + 1)

\* Python's str comparison: lexicographic by code point, a prefix is smaller
StrLess(a, b) == LessFrom(a, b, 1)

StartsWith(s, p) == Len(s) >= Len(p) /\ SubSeq(s, 1, Len(p)) = p

\* index of the last "." of a name, 0 when there is none
LastDot(s) ==
    LET D == {i \in 1..Len(s) : SubSeq(s, i, i) = "."}
    IN IF D = {} THEN 0 ELSE CHOOSE i \in D : \A j \in D : j <= i

\* pathlib's PurePath.suffix: from the last dot, unless the name starts or
\* ends with it
Suffix(name) ==
    LET i == LastDot(name)
    IN IF 1 < i /\ i < Len(name) THEN SubSeq(name, i, Len(name)) ELSE ""

\* pathlib's PurePath.with_suffix on a name that has a suffix
WithSuffix(name, suffix) ==
    SubSeq(name, 1, Len(name) - Len(Suffix(name))) \o suffix

\* number of characters of str(n), n >= 0
Digits(n) == Len(ToString(n))

Take(s, n) == SubSeq(s, 1, IF Len(s) < n THEN Len(s) ELSE n)

RECURSIVE SumLen(_)
SumLen(ss) == IF ss = <<>> THEN 0 ELSE Len(Head(ss)) + SumLen(Tail(ss))

\* len("`, `".join(ss)) for a non-empty list
JoinLen(ss) == SumLen(ss) + 4 * (Len(ss) - 1)

----------------------------------------------------------------------------
(* Paths.  A path is the sequence of names below the analysis root, so the *)
(* root is <<>>.  README and BACKUP are the two names the walker writes.   *)

RootName == "proj"            \* self.root_path.name
RootAbs == "/w/proj"          \* str(self.root_path)
README == "README.md"
BACKUP == WithSuffix(README, ".md.backup")

Name(p) == IF p = <<>> THEN RootName ELSE p[Len(p)]
Parent(p) == SubSeq(p, 1, Len(p) - 1)

RECURSIVE JoinPath(_)
JoinPath(p) ==
    IF p = <<>> THEN ""
    ELSE IF Len(p) = 1 THEN p[1]
    ELSE JoinPath(Parent(p)) \o "/" \o p[Len(p)]

\* str(dir_path)
AbsPath(p) == IF p = <<>> THEN RootAbs ELSE RootAbs \o "/" \o JoinPath(p)
\* str(dir_path.relative_to(self.root_path))
RelPath(p) == IF p = <<>> THEN "." ELSE JoinPath(p)

IsPrefix(d, p) == Len(d) <= Len(p) /\ SubSeq(p, 1, Len(d)) = d

----------------------------------------------------------------------------
(* Language Classifier and Binary Detector.                                *)

supported_extensions ==
    ".py" :> "python" @@ ".js" :> "javascript" @@ ".ts" :> "typescript" @@
    ".jsx" :> "react" @@ ".tsx" :> "react" @@ ".java" :> "java" @@
    ".cpp" :> "cpp" @@ ".c" :> "c" @@ ".cs" :> "csharp" @@ ".go" :> "go" @@
    ".rs" :> "rust" @@ ".php" :> "php" @@ ".rb" :> "ruby" @@
    ".swift" :> "swift" @@ ".kt" :> "kotlin" @@ ".scala" :> "scala" @@
    ".html" :> "html" @@ ".css" :> "css" @@ ".scss" :> "scss" @@
    ".sass" :> "sass" @@ ".sql" :> "sql" @@ ".sh" :> "shell" @@
    ".bash" :> "shell" @@ ".json" :> "json" @@ ".yaml" :> "yaml" @@
    ".yml" :> "yaml" @@ ".xml" :> "xml" @@ ".md" :> "markdown" @@
    ".txt" :> "text" @@ ".dockerfile" :> "docker"

get_file_language(name) ==
    LET suffix == LowerStr(Suffix(name))
    IN IF suffix \in DOMAIN supported_extensions
       THEN supported_extensions[suffix] ELSE "unknown"

\* An entry of kind "file" holds a body and whether it may be opened; an entry
\* of kind "dangling" is a symbolic link to nothing: open() and stat() fail.
\* open(file_path, 'rb') fails -> True; else a zero byte in the first 1024.
is_binary_file(e) ==
    IF e.kind # "file" \/ ~e.readable THEN TRUE ELSE e.body.nul

----------------------------------------------------------------------------
(* Document layout.  A document is the record of everything its text       *)
(* depends on; RenderLines gives its lines, each with its length and, for  *)
(* a line starting with "#", the text left once the marker is stripped     *)
(* (head; "" for the fixed CJK headings, which are at most 5 characters).  *)

Line(n, h) == [len |-> n, head |-> h]
Blank == Line(0, "")

\* format_file_summary's text for one Source record
SummaryLines(f) ==
    <<Line(6 + Len(f.name), f.name), Blank,          \* "##### {name}"
      Line(10 + Len(f.language), ""),                \* "**..:** {language}  "
      Line(10 + Digits(f.lines), ""),                \* "**..:** {lines}  "
      Line(8 + Len(f.description), ""), Blank>>      \* "**..:** {description}"
    \o (IF f.functions # <<>>
        THEN <<Line(12 + JoinLen(f.functions), ""), Blank>> ELSE <<>>)
    \o (IF f.classes # <<>>
        THEN <<Line(11 + JoinLen(f.classes), ""), Blank>> ELSE <<>>)
    \o (IF f.imports # <<>>
        THEN <<Line(11 + JoinLen(f.imports), ""), Blank>> ELSE <<>>)

RECURSIVE LangLines(_)
LangLines(ls) ==      \* "- {lang}: {count} ..." with 3 CJK characters
    IF ls = <<>> THEN <<>>
    ELSE <<Line(8 + Len(Head(ls).lang) + Digits(Head(ls).count), "")>>
         \o LangLines(Tail(ls))

RECURSIVE SubdirLines(_)
SubdirLines(ds) ==    \* "- **{name}/** - ..." with 9 CJK characters
    IF ds = <<>> THEN <<>>
    ELSE <<Line(19 + Len(Head(ds)), "")>> \o SubdirLines(Tail(ds))

RECURSIVE SourceLines(_)
SourceLines(fr) ==
    IF fr = <<>> THEN <<>>
    ELSE (IF Head(fr).type = "source" THEN SummaryLines(Head(fr)) ELSE <<>>)
         \o SourceLines(Tail(fr))

RECURSIVE OtherLines(_)
OtherLines(fr) ==     \* "- **{name}** ({type})"
    IF fr = <<>> THEN <<>>
    ELSE (IF Head(fr).type # "source"
          THEN <<Line(9 + Len(Head(fr).name) + Len(Head(fr).type), "")>>
          ELSE <<>>)
         \o OtherLines(Tail(fr))

RenderLines(doc) ==
    IF "error" \in DOMAIN doc
    THEN <<Line(4, ""), Blank, Line(9 + Len(doc.error), "")>>
    ELSE
      <<Line(2 + Len(doc.name), doc.name), Blank,     \* "# {name}"
        Line(7, ""), Blank,                           \* overview heading
        Line(18 + Digits(doc.total_files) + Digits(doc.total_dirs), ""),
        Blank,
        Line(12 + Len(doc.path), ""),                 \* the relative path
        Line(10 + Len(doc.time), ""),                 \* the timestamp
        Blank,
        Line(11, "")>>                                \* languages heading
      \o LangLines(doc.languages)
      \o <<Blank, Line(7, ""), Blank>>                \* explanation heading
      \o (IF doc.directories # <<>>
          THEN <<Line(7, ""), Blank>> \o SubdirLines(doc.directories)
               \o <<Blank>>
          ELSE <<>>)
      \o (IF doc.files # <<>>
          THEN <<Line(8, ""), Blank>>
               \o (IF \E i \in DOMAIN doc.files : doc.files[i].type = "source"
                   THEN <<Line(10, ""), Blank>> \o SourceLines(doc.files)
                   ELSE <<>>)
               \o (IF \E i \in DOMAIN doc.files : doc.files[i].type # "source"
                   THEN <<Line(9, ""), Blank>> \o OtherLines(doc.files)
                   ELSE <<>>)
          ELSE <<>>)
      \o <<Blank, Line(3, ""), Line(16, "")>>         \* rule and footer

RECURSIVE SumLineLen(_)
SumLineLen(ls) == IF ls = <<>> THEN 0 ELSE Head(ls).len + SumLineLen(Tail(ls))

\* len(readme_content): the lines and the newlines between them
ContentLength(doc) ==
    LET ls == RenderLines(doc) IN SumLineLen(ls) + Len(ls) - 1

----------------------------------------------------------------------------
(* File Analyzer.  The body of a file written by a user is                 *)
(*   [src |-> "user", id, nul, lines, desc, functions, classes, imports]   *)
(* where lines is len(content.splitlines()), desc the first comment or     *)
(* docstring line of the first 20 whose cleaned length is between 10 and   *)
(* 200 ("" when there is none), and functions, classes, imports what the   *)
(* language's regular expressions find, in scan order.  The body of a file *)
(* written by the walker is [src |-> "tool", nul |-> FALSE, doc |-> doc].  *)

\* the five CJK characters appended to the language in the default description
DefaultSuffix == "....."

TextLines(body) ==
    IF body.src = "user" THEN body.lines ELSE Len(RenderLines(body.doc))

extract_description(body, language) ==
    IF body.src = "user"
    THEN IF body.desc # "" THEN body.desc ELSE language \o DefaultSuffix
    ELSE LET ls == Take(RenderLines(body.doc), 20)
             Q == {i \in DOMAIN ls : Len(ls[i].head) > 10 /\ Len(ls[i].head) < 200}
         IN IF Q = {} THEN language \o DefaultSuffix
            ELSE ls[CHOOSE i \in Q : \A j \in Q : i <= j].head

\* analyze_python_file, analyze_js_file, analyze_java_file: the first 10 matches.
\* The walker only writes names whose language has no extraction.
Matches(body, language) ==
    IF language \in {"python", "javascript", "typescript", "java"}
       /\ body.src = "user"
    THEN [functions |-> Take(body.functions, 10),
          classes |-> Take(body.classes, 10),
          imports |-> Take(body.imports, 10)]
    ELSE [functions |-> <<>>, classes |-> <<>>, imports |-> <<>>]

\* The size field of a record is left out: nothing reads it.
analyze_file(name, e) ==
    IF is_binary_file(e)
    THEN IF e.kind = "dangling"
         THEN [name |-> name, type |-> "error"]           \* stat() raised
         ELSE [name |-> name, type |-> "binary", language |-> "binary"]
    ELSE LET language == get_file_language(name)
             m == Matches(e.body, language)
         IN [name |-> name, type |-> "source", language |-> language,
             lines |-> TextLines(e.body),
             functions |-> m.functions, classes |-> m.classes,
             imports |-> m.imports,
             description |-> extract_description(e.body, language)]

----------------------------------------------------------------------------
(* Directory Analyzer.                                                     *)

\* the names in directory d of filesystem f
ChildNames(f, d) ==
    {p[Len(p)] : p \in {q \in DOMAIN f : Len(q) = Len(d) + 1 /\ IsPrefix(d, q)}}

RECURSIVE Ascending(_)
Ascending(S) ==
    IF S = {} THEN <<>>
    ELSE LET m == CHOOSE x \in S : \A y \in S : ~StrLess(y, x)
         IN <<m>> \o Ascending(S \ {m})

Reverse(s) == [i \in 1..Len(s) |-> s[Len(s) + 1 - i]]

\* dir_path.iterdir(): the entries in the order the filesystem lists them, which
\* is arbitrary but a property of the tree: one of two opposite orders here.
iterdir(f, r, d) ==
    LET a == Ascending(ChildNames(f, d)) IN IF r THEN Reverse(a) ELSE a

\* key=lambda x: x.name.lower()
SortKey(name) == LowerStr(name)

\* sorted(): a stable sort of [key, val] pairs by key
RECURSIVE InsertByKey(_, _)
InsertByKey(x, s) ==
    IF s = <<>> THEN <<x>>
    ELSE IF StrLess(x.key, Head(s).key) THEN <<x>> \o s
    ELSE <<Head(s)>> \o InsertByKey(x, Tail(s))

RECURSIVE SortedByKey(_)
SortedByKey(s) ==
    IF s = <<>> THEN <<>>
    ELSE InsertByKey(s[Len(s)], SortedByKey(SubSeq(s, 1, Len(s) - 1)))

Vals(s) == [i \in 1..Len(s) |-> s[i].val]

\* file_info.get('language', 'unknown')
LanguageOf(rec) == IF "language" \in DOMAIN rec THEN rec.language ELSE "unknown"

\* a tally that passes over records without a language
RECURSIVE TallySkipping(_, _)
TallySkipping(files, acc) ==
    IF files = <<>> THEN acc
    ELSE IF "language" \notin DOMAIN Head(files)
    THEN TallySkipping(Tail(files), acc)
    ELSE LET lang == Head(files).language
             I == {i \in DOMAIN acc : acc[i].lang = lang}
         IN TallySkipping(Tail(files),
                  IF I = {} THEN Append(acc, [lang |-> lang, count |-> 1])
                  ELSE [i \in DOMAIN acc |->
                          IF i \in I THEN [acc[i] EXCEPT !.count = @ + 1]
                          ELSE acc[i]])

RECURSIVE Tally(_, _)
Tally(files, acc) ==
    IF files = <<>> THEN acc
    ELSE LET lang == LanguageOf(Head(files))
             I == {i \in DOMAIN acc : acc[i].lang = lang}
         IN Tally(Tail(files),
                  IF I = {} THEN Append(acc, [lang |-> lang, count |-> 1])
                  ELSE [i \in DOMAIN acc |->
                          IF i \in I THEN [acc[i] EXCEPT !.count = @ + 1]
                          ELSE acc[i]])

RECURSIVE InsertByCount(_, _)
InsertByCount(x, s) ==
    IF s = <<>> THEN <<x>>
    ELSE IF x.count > Head(s).count THEN <<x>> \o s
    ELSE <<Head(s)>> \o InsertByCount(x, Tail(s))

RECURSIVE SortedByCount(_)
SortedByCount(s) ==
    IF s = <<>> THEN <<>>
    ELSE InsertByCount(s[Len(s)], SortedByCount(SubSeq(s, 1, Len(s) - 1)))

\* a dict in insertion order, as a sequence of [lang, count]
count_languages(files) == SortedByCount(Tally(files, <<>>))

\* no name taken as hidden
NeverHidden(n) == FALSE

\* item.name.startswith('.')
IsHidden(n) == StartsWith(n, ".")

\* the loop over iterdir(): hidden names skipped, directories collected as
\* paths, every other entry analysed
RECURSIVE Scan(_, _, _, _)
Scan(f, d, names, acc) ==
    IF names = <<>> THEN acc
    ELSE LET n == Head(names)
             item == Append(d, n)
         IN Scan(f, d, Tail(names),
                 IF IsHidden(n) THEN acc
                 ELSE IF f[item].kind = "dir"
                 THEN [acc EXCEPT !.directories = Append(@, item)]
                 ELSE [acc EXCEPT !.files = Append(@, analyze_file(n, f[item]))])

\* The result is an error record, a snapshot, or [raised |-> ...] when an
\* exception other than PermissionError leaves the function.
analyze_directory(f, r, d) ==
    IF d \notin DOMAIN f
    THEN [error |-> "Directory " \o AbsPath(d) \o " does not exist"]
    ELSE IF f[d].kind # "dir"
    THEN [raised |-> "NotADirectoryError"]
    ELSE IF f[d].deny
    THEN [error |-> "Permission denied accessing " \o AbsPath(d)]
    ELSE LET got == Scan(f, d, iterdir(f, r, d),
                         [directories |-> <<>>, files |-> <<>>])
             directories == got.directories
             files == got.files
         IN [name |-> Name(d),
             path |-> RelPath(d),
             directories |->
                 Vals(SortedByKey([i \in DOMAIN directories |->
                     [key |-> SortKey(Name(directories[i])),
                      val |-> directories[i]]])),
             files |->
                 Vals(SortedByKey([i \in DOMAIN files |->
                     [key |-> SortKey(files[i].name), val |-> files[i]]])),
             stats |-> [total_files |-> Len(files),
                        total_dirs |-> Len(directories),
                        languages |-> count_languages(files)]]

----------------------------------------------------------------------------
(* Document Renderer.                                                      *)

\* datetime.now().strftime('%Y-%m-%d %H:%M:%S') within one minute: the seconds
\* are zero-padded to two digits
Pad2(n) == IF n < 10 THEN "0" \o ToString(n) ELSE ToString(n)

\* the seconds without padding
strftimeUnpadded(t) == "2026-11-01 22:26:" \o ToString(t)

strftime(t) == "2026-11-01 22:26:" \o Pad2(t)

\* what the text shows of one file record
Shown(rec) ==
    IF rec.type = "source"
    THEN [name |-> rec.name, type |-> rec.type, language |-> rec.language,
          lines |-> rec.lines, description |-> rec.description,
          functions |-> Take(rec.functions, 5),
          classes |-> Take(rec.classes, 5),
          imports |-> Take(rec.imports, 3)]
    ELSE [name |-> rec.name, type |-> rec.type]

generate_readme_content(a, t) ==
    IF "error" \in DOMAIN a
    THEN [error |-> a.error]
    ELSE [name |-> a.name,
          path |-> a.path,
          total_files |-> a.stats.total_files,
          total_dirs |-> a.stats.total_dirs,
          time |-> strftime(t),
          languages |-> Take(a.stats.languages, 5),
          directories |-> [i \in DOMAIN a.directories |-> Name(a.directories[i])],
          files |-> [i \in DOMAIN a.files |-> Shown(a.files[i])]]

----------------------------------------------------------------------------
(* Filesystem operations of the walker.                                    *)

\* Path.exists()
exists(f, p) == p \in DOMAIN f

\* Path.rename(): raises when the directory refuses it, when a file would
\* replace a directory or a directory a file, or a directory a non-empty one
RenameRaises(f, src, dst) ==
    \/ f[Parent(src)].rfail
    \/ /\ dst \in DOMAIN f
       /\ \/ (f[src].kind = "dir") # (f[dst].kind = "dir")
          \/ f[dst].kind = "dir" /\ ChildNames(f, dst) # {}

\* Rename as an unlink of src: nothing arrives at dst
RenameLosing(f, src, dst) ==
    [q \in {p \in DOMAIN f : ~IsPrefix(src, p)} |-> f[q]]

\* Rename that leaves an existing dst alone
RenameKeepingOld(f, src, dst) ==
    IF dst \in DOMAIN f
    THEN [q \in {p \in DOMAIN f : ~IsPrefix(src, p)} |-> f[q]]
    ELSE [q \in ({p \in DOMAIN f : ~IsPrefix(src, p)} \cup {dst}) |->
            IF q = dst THEN f[src] ELSE f[q]]

\* a successful rename: src and all below it now at dst, replacing what was there
Rename(f, src, dst) ==
    LET keep == {p \in DOMAIN f : ~IsPrefix(src, p) /\ ~IsPrefix(dst, p)}
        moved == {dst \o SubSeq(p, Len(src) + 1, Len(p)) :
                    p \in {q \in DOMAIN f : IsPrefix(src, q)}}
    IN [q \in keep \cup moved |->
          IF q \in keep THEN f[q]
          ELSE f[src \o SubSeq(q, Len(dst) + 1, Len(q))]]

\* open(readme_path, 'w') raises when the directory is gone or refuses it
WriteRaises(f, d) == d \notin DOMAIN f \/ f[d].kind # "dir" \/ f[d].wfail

\* the file the walker leaves at path p
Write(f, p, content) ==
    [q \in DOMAIN f \cup {p} |->
        IF q = p
        THEN [kind |-> "file", readable |-> TRUE,
              body |-> [src |-> "tool", nul |-> FALSE, doc |-> content]]
        ELSE f[q]]

----------------------------------------------------------------------------
(* Tree Walker / Writer.                                                   *)

NoRun == [dry |-> FALSE, out |-> <<>>, end |-> "none", fs0 |-> <<>>]

\* generate_hierarchical_readmes up to its first call of process_directory
StartRun(dry) ==
    /\ pc # "walking"
    /\ nruns < MaxRuns
    /\ nruns' = nruns + 1
    /\ prev' = IF nruns = 0 THEN NoRun
               ELSE [dry |-> dry_run, out |-> out, end |-> pc, fs0 |-> fs0]
    /\ dry_run' = dry
    /\ fs0' = fs
    /\ IF ~exists(fs, <<>>)
       THEN /\ out' = <<[ev |-> "rooterr"]>>
            /\ pc' = "noroot"
            /\ stack' = <<>>
       ELSE /\ out' = <<[ev |-> "start"]>>
            /\ pc' = "walking"
            /\ stack' = <<[dir |-> <<>>, rel |-> ""]>>
    /\ UNCHANGED <<fs, rev, now>>

\* the flag ignored
WritesAlways(dry) == TRUE

\* if not dry_run
Writes(dry) == ~dry

\* the calls process_directory makes for the subdirectories, in order
ChildCalls(analysis, rel) ==
    IF "directories" \in DOMAIN analysis
    THEN [i \in DOMAIN analysis.directories |->
            [dir |-> analysis.directories[i],
             rel |-> IF rel # "" THEN rel \o "/" \o Name(analysis.directories[i])
                     ELSE Name(analysis.directories[i])]]
    ELSE <<>>

\* One call of process_directory, up to its loop over the subdirectories.
\* An exception that leaves it ends the process: pc becomes "aborted".
ProcessDirectory ==
    /\ pc = "walking"
    /\ stack # <<>>
    /\ LET dir_path == Head(stack).dir
           relative_path == Head(stack).rel
           analysis == analyze_directory(fs, rev, dir_path)
           said == [ev |-> "processing", rel |-> relative_path,
                    dir |-> dir_path, analysis |-> analysis]
       IN IF "raised" \in DOMAIN analysis
          THEN /\ out' = Append(out, said)
               /\ pc' = "aborted"
               /\ stack' = <<>>
               /\ UNCHANGED <<fs, now>>
          ELSE
            LET readme_content == generate_readme_content(analysis, now)
                readme_path == Append(dir_path, README)
                backup_path == Append(dir_path, WithSuffix(README, ".md.backup"))
                backing == Writes(dry_run) /\ exists(fs, readme_path)
                at == [dir |-> dir_path, doc |-> readme_content]
            IN /\ now' = now + 1
               /\ IF ~Writes(dry_run)
                  THEN /\ out' = out \o <<said,
                                 [ev |-> "preview"] @@ at,
                                 [ev |-> "length", dir |-> dir_path,
                                  n |-> ContentLength(readme_content)]>>
                       /\ stack' = ChildCalls(analysis, relative_path) \o Tail(stack)
                       /\ UNCHANGED <<fs, pc>>
                  ELSE IF backing /\ RenameRaises(fs, readme_path, backup_path)
                  THEN /\ out' = out \o <<said, [ev |-> "backup", dir |-> dir_path]>>
                       /\ pc' = "aborted"
                       /\ stack' = <<>>
                       /\ UNCHANGED fs
                  ELSE LET fs1 == IF backing
                                  THEN Rename(fs, readme_path, backup_path)
                                  ELSE fs
                           ok == ~WriteRaises(fs1, dir_path)
                       IN /\ fs' = IF ok THEN Write(fs1, readme_path, readme_content)
                                   ELSE fs1
                          /\ out' = out \o <<said>>
                                 \o (IF backing
                                     THEN <<[ev |-> "backup", dir |-> dir_path]>>
                                     ELSE <<>>)
                                 \o <<[ev |-> IF ok THEN "written" ELSE "failed"]
                                      @@ at>>
                          /\ stack' = ChildCalls(analysis, relative_path)
                                      \o Tail(stack)
                          /\ UNCHANGED pc
    /\ UNCHANGED <<rev, dry_run, fs0, prev, nruns>>

\* process_directory(self.root_path) has returned: the completion notice
Finish ==
    /\ pc = "walking"
    /\ stack = <<>>
    /\ out' = Append(out, [ev |-> "complete"])
    /\ pc' = "done"
    /\ UNCHANGED <<fs, rev, now, dry_run, stack, fs0, prev, nruns>>

----------------------------------------------------------------------------
(* The trees the invocations start from.                                   *)

Dir(faults, d) ==
    [kind |-> "dir", deny |-> <<d, "deny">> \in faults,
     wfail |-> <<d, "wfail">> \in faults, rfail |-> <<d, "rfail">> \in faults]

Plain == [kind |-> "dir", deny |-> FALSE, wfail |-> FALSE, rfail |-> FALSE]

Text(id, lines, desc, functions, classes, imports) ==
    [kind |-> "file", readable |-> TRUE,
     body |-> [src |-> "user", id |-> id, nul |-> FALSE, lines |-> lines,
               desc |-> desc, functions |-> functions, classes |-> classes,
               imports |-> imports]]

Bare(id, lines) == Text(id, lines, "", <<>>, <<>>, <<>>)

\* a user's README.md in directory d
UserDoc(d) == Bare(<<"doc", d>>, 3)

\* the optional visible subdirectories; "B" sorts before "a" by code point
\* and after it once lowered
OptionalDirs == {<<"a">>, <<"a", "c">>, <<"B">>}

DirSets == {S \in SUBSET OptionalDirs : <<"a", "c">> \in S => <<"a">> \in S}

\* always there: a hidden directory holding a README.md, and a hidden file
Hidden ==
    <<".h">> :> Plain @@ <<".h", README>> :> UserDoc(<<".h">>)
    @@ <<".env">> :> Bare("env", 1)

NoFiles == [p \in {} |-> Plain]

\* a source file, a file with a zero byte, one that cannot be opened, a
\* dangling link, and a name whose suffix is only known once lowered
MixedFiles ==
    <<"m.py">> :> Text("m", 5, "This is a valid description line",
                       <<"add", "sub">>, <<"K">>, <<"os">>)
    @@ <<"x.bin">> :> [kind |-> "file", readable |-> TRUE,
                       body |-> [src |-> "user", id |-> "x", nul |-> TRUE]]
    @@ <<"s.sh">> :> [Bare("s", 2) EXCEPT !.readable = FALSE]
    @@ <<"e.txt">> :> [kind |-> "dangling"]
    @@ <<"N.JS">> :> Bare("n", 12)

\* six languages with one file each: the document lists five of them
SixLanguages ==
    <<"m.py">> :> Bare("m", 5) @@ <<"x.js">> :> Bare("x", 7)
    @@ <<"t.ts">> :> Bare("t", 9) @@ <<"j.java">> :> Bare("j", 11)
    @@ <<"g.go">> :> Bare("g", 2) @@ <<"r.rs">> :> Bare("r", 4)

\* the tree with directories D (the root among them), a user's README.md in
\* the directories docs, the faults given, and the files given in the root
Tree(D, docs, faults, files) ==
    [d \in D |-> Dir(faults, d)]
    @@ [p \in {Append(d, README) : d \in docs} |-> UserDoc(Parent(p))]
    @@ files @@ Hidden

FaultSets(kinds, D) ==
    {F \in SUBSET (D \X kinds) : Cardinality(F) <= MaxFaults}

TreesOn(D, kinds, fileSets) ==
    {Tree(D, docs, faults, files) :
        docs \in SUBSET D, faults \in FaultSets(kinds, D), files \in fileSets}

Trees(kinds, fileSets) ==
    UNION {TreesOn(dirs \cup {<<>>}, kinds, fileSets) : dirs \in DirSets}

\* no root: the path given on the command line does not exist
NoTree == [p \in {} |-> Plain]

\* the seconds of the clock start just below the two-digit boundary
StartSecond == 8

InitWith(trees, orders) ==
    /\ fs \in trees
    /\ rev \in orders
    /\ now = StartSecond
    /\ pc = "idle"
    /\ dry_run = FALSE
    /\ stack = <<>>
    /\ out = <<>>
    /\ fs0 = fs
    /\ prev = NoRun
    /\ nruns = 0

----------------------------------------------------------------------------
(* Spec: invocations without --dry-run, on trees with any faults.          *)
(* SpecPreview: invocations with --dry-run, on trees with more files.      *)

Init == InitWith(Trees({"deny", "wfail", "rfail"}, {MixedFiles}) \cup {NoTree},
                 {FALSE})

Next == StartRun(FALSE) \/ ProcessDirectory \/ Finish

Spec == Init /\ [][Next]_vars

InitPreview ==
    InitWith(Trees({"deny"}, {NoFiles, MixedFiles, SixLanguages}) \cup {NoTree},
             BOOLEAN)

NextPreview == StartRun(TRUE) \/ ProcessDirectory \/ Finish

SpecPreview == InitPreview /\ [][NextPreview]_vars

----------------------------------------------------------------------------
(* What the claims speak of, read off the console lines and the trees.     *)

IsProcessing(e) == e.ev = "processing"
IsLength(e) == e.ev = "length"

\* the directories process_directory was called on, in order
Visits(o) ==
    LET ps == SelectSeq(o, IsProcessing) IN [i \in DOMAIN ps |-> ps[i].dir]

VisitedSet(o) == {Visits(o)[i] : i \in DOMAIN Visits(o)}

\* the directory's visit got as far as open(readme_path, 'w')
Attempted(o, d) ==
    \E i \in DOMAIN o : o[i].ev \in {"written", "failed"} /\ o[i].dir = d

Wrote(o, d) == \E i \in DOMAIN o : o[i].ev = "written" /\ o[i].dir = d

\* the document rendered for d in the run whose lines are o
Rendered(o, d) ==
    o[CHOOSE i \in DOMAIN o :
        o[i].ev \in {"written", "failed", "preview"} /\ o[i].dir = d].doc

ToolFile(doc) ==
    [kind |-> "file", readable |-> TRUE,
     body |-> [src |-> "tool", nul |-> FALSE, doc |-> doc]]

DirsOf(f) == {p \in DOMAIN f : f[p].kind = "dir"}

HiddenPath(p) == \E i \in DOMAIN p : SubSeq(p[i], 1, 1) = "."

\* reachable from the root through non-hidden directories that can be listed
Reachable(f) ==
    {d \in DirsOf(f) :
        /\ ~HiddenPath(d)
        /\ \A k \in 0..(Len(d) - 1) : ~f[SubSeq(d, 1, k)].deny}

\* the visible subdirectories of d by lowered name (no two names of a
\* directory of these trees differ only in case)
RECURSIVE ByLoweredName(_)
ByLoweredName(S) ==
    IF S = {} THEN <<>>
    ELSE LET m == CHOOSE x \in S :
                    \A y \in S \ {x} : StrLess(LowerStr(Name(x)), LowerStr(Name(y)))
         IN <<m>> \o ByLoweredName(S \ {m})

RECURSIVE PreOrder(_, _)
RECURSIVE PreOrderAll(_, _)
PreOrder(f, d) ==
    <<d>> \o (IF f[d].deny THEN <<>>
              ELSE PreOrderAll(f, ByLoweredName(
                       {c \in DirsOf(f) : Len(c) = Len(d) + 1 /\ IsPrefix(d, c)
                                          /\ ~HiddenPath(c)})))
PreOrderAll(f, ds) ==
    IF ds = <<>> THEN <<>> ELSE PreOrder(f, Head(ds)) \o PreOrderAll(f, Tail(ds))

RunOver == pc \in {"done", "aborted"}

HadReadme(f, d) == Append(d, README) \in DOMAIN f

\* the directories that follow d in the expected order of the walk of f
Later(f, d) ==
    LET po == PreOrder(f, <<>>)
    IN {po[j] : j \in {k \in DOMAIN po : \E i \in 1..(k - 1) : po[i] = d}}

----------------------------------------------------------------------------
(* Backups.                                                                *)

----------------------------------------------------------------------------
(* Preview.                                                                *)

\* C2: a run with --dry-run leaves every entry of the tree as it was, and
\* once it has finished every reachable directory has been analysed and
\* the length of its document reported.
C2PreviewChangesNothing ==
    [][/\ dry_run' => fs' = fs
       /\ (dry_run' /\ pc' = "done") =>
             \A d \in Reachable(fs0') :
                \E i \in 1..(Len(out') - 2) :
                    /\ out'[i].ev = "processing" /\ out'[i].dir = d
                    /\ out'[i].analysis = analyze_directory(fs0', rev', d)
                    /\ out'[i + 1].ev = "preview" /\ out'[i + 1].dir = d
                    /\ out'[i + 2].ev = "length" /\ out'[i + 2].dir = d
                    /\ out'[i + 2].n = ContentLength(out'[i + 1].doc)]_vars

\* a finished preview of a tree in which three directories hold a README.md
C2Witness ==
    /\ pc = "done"
    /\ dry_run
    /\ Cardinality({d \in VisitedSet(out) : HadReadme(fs, d)}) >= 3
    /\ fs = fs0

\* the reported lengths of a run, in order
Lengths(o) ==
    LET ls == SelectSeq(o, IsLength)
    IN [i \in DOMAIN ls |-> [dir |-> ls[i].dir, n |-> ls[i].n]]

\* C6: two finished previews of the same unchanged tree report the same
\* lengths in the same order.
C6PreviewRepeats ==
    (/\ pc = "done" /\ dry_run
     /\ prev.end = "done" /\ prev.dry
     /\ prev.fs0 = fs0)
        => Lengths(out) = Lengths(prev.out)

\* two finished previews of a tree of four directories, the clock passing
\* from one-digit to two-digit seconds between them
C6Witness ==
    /\ pc = "done" /\ dry_run
    /\ prev.end = "done" /\ prev.dry
    /\ prev.fs0 = fs0
    /\ Len(Lengths(out)) = 4
    /\ now > 10

----------------------------------------------------------------------------
(* Failure containment.                                                    *)

\* C3: a run never ends by an exception; it stops before the walk only
\* when the root does not exist, and a run that starts the walk visits
\* every reachable directory and prints the completion notice.
C3NoFailureAborts ==
    /\ pc # "aborted"
    /\ pc = "noroot" => ~exists(fs0, <<>>)
    /\ pc = "done" => VisitedSet(out) = Reachable(fs0)

\* C4: after a failed write of one directory's document, every later
\* directory of the walk is still visited and its write attempted.
C4WriteFailureNotFatal ==
    RunOver =>
        \A i \in DOMAIN out :
            out[i].ev = "failed" =>
                \A d \in Later(fs0, out[i].dir) :
                    d \in VisitedSet(out) /\ Attempted(out, d)

\* C5: a directory whose analysis is an error gets the error notice as its
\* document, none of its subdirectories is visited, and its siblings are
\* visited all the same.
C5ErrorDirectoryContained ==
    RunOver =>
        \A i \in DOMAIN out :
            (out[i].ev = "processing" /\ "error" \in DOMAIN out[i].analysis) =>
                LET d == out[i].dir
                IN /\ Attempted(out, d)
                   /\ Rendered(out, d) = [error |-> out[i].analysis.error]
                   /\ \A v \in VisitedSet(out) : ~(IsPrefix(d, v) /\ v # d)
                   /\ \A s \in Reachable(fs0) :
                         (s # <<>> /\ d # <<>> /\ Parent(s) = Parent(d))
                            => s \in VisitedSet(out)

----------------------------------------------------------------------------
(* Snapshots.                                                              *)

RECURSIVE SumCounts(_)
SumCounts(ls) ==
    IF ls = <<>> THEN 0 ELSE Head(ls).count + SumCounts(Tail(ls))

\* the snapshots the walk has taken so far
Snapshots ==
    {out[i].analysis : i \in {j \in DOMAIN out :
        out[j].ev = "processing" /\ "stats" \in DOMAIN out[j].analysis}}

\* C7: a snapshot lists no hidden entry, total_files and total_dirs are
\* the lengths of its two lists, and the counts of its language histogram
\* add up to total_files.
C7SnapshotConsistent ==
    \A a \in Snapshots :
        /\ \A i \in DOMAIN a.directories : ~HiddenPath(<<Name(a.directories[i])>>)
        /\ \A i \in DOMAIN a.files : ~HiddenPath(<<a.files[i].name>>)
        /\ a.stats.total_files = Len(a.files)
        /\ a.stats.total_dirs = Len(a.directories)
        /\ SumCounts(a.stats.languages) = a.stats.total_files

\* a snapshot of a directory that holds hidden entries, a subdirectory,
\* and files of all three record types
C7Witness ==
    \E a \in Snapshots :
        /\ a.path = "."
        /\ <<".h">> \in DOMAIN fs /\ <<".env">> \in DOMAIN fs
        /\ a.stats.total_dirs >= 1
        /\ {a.files[i].type : i \in DOMAIN a.files} = {"source", "binary", "error"}

----------------------------------------------------------------------------
(* Traversal.                                                              *)

\* C8: the walk is depth-first and pre-order from the root, subdirectories
\* in order of their lowered names; every reachable directory is visited
\* exactly once, its document is attempted before any of its
\* subdirectories is visited, and a subdirectory's relative path is its
\* parent's followed by '/' and its name (the bare name under the root).
C8PreOrderWalk ==
    RunOver =>
        /\ Visits(out) = PreOrder(fs0, <<>>)
        /\ \A i \in DOMAIN out :
              out[i].ev = "processing" =>
                 /\ out[i].rel = JoinPath(out[i].dir)
                 /\ \A j \in (i + 1)..Len(out) :
                       (/\ out[j].ev = "processing"
                        /\ IsPrefix(out[i].dir, out[j].dir))
                       => \E k \in (i + 1)..(j - 1) :
                             /\ out[k].ev \in {"written", "failed", "preview"}
                             /\ out[k].dir = out[i].dir

----------------------------------------------------------------------------
(* Two runs.                                                               *)

\* C9: a directory has one backup path; when two runs without --dry-run
\* both finish and both write the document of a directory that held a
\* user's README.md, README.md.backup then holds the first run's document
\* and the user's original is nowhere in the directory.
C9SecondRunReplacesBackup ==
    (/\ pc = "done" /\ ~dry_run
     /\ prev.end = "done" /\ ~prev.dry)
        => \A d \in VisitedSet(out) :
              (/\ HadReadme(prev.fs0, d)
               /\ prev.fs0[Append(d, README)].body.src = "user"
               /\ Wrote(prev.out, d)
               /\ Wrote(out, d))
              => /\ Append(d, BACKUP) \in DOMAIN fs
                 /\ fs[Append(d, BACKUP)] = ToolFile(Rendered(prev.out, d))
                 /\ fs[Append(d, README)] = ToolFile(Rendered(out, d))
                 /\ \A p \in DOMAIN fs :
                       (Len(p) = Len(d) + 1 /\ IsPrefix(d, p)) =>
                          /\ fs[p] # prev.fs0[Append(d, README)]
                          /\ p \notin DOMAIN prev.fs0
                                => Name(p) \in {README, BACKUP}

\* two finished runs that both wrote the documents of two directories
\* holding a user's README.md
C9Witness ==
    /\ pc = "done" /\ ~dry_run
    /\ prev.end = "done" /\ ~prev.dry
    /\ nruns = 2
    /\ Cardinality({d \in VisitedSet(out) :
            /\ HadReadme(prev.fs0, d)
            /\ Wrote(prev.out, d)
            /\ Wrote(out, d)}) >= 2

----------------------------------------------------------------------------
(* Frame.                                                                  *)

\* C10: a run changes no entry other than README.md and README.md.backup
\* directly inside directories it visited, and no visited directory is
\* hidden or lies below a hidden directory.
C10OnlyDocumentsChange ==
    /\ \A p \in DOMAIN fs \cup DOMAIN fs0 :
          (\/ p \notin DOMAIN fs
           \/ p \notin DOMAIN fs0
           \/ fs[p] # fs0[p])
          => /\ p # <<>>
             /\ Name(p) \in {README, BACKUP}
             /\ Parent(p) \in VisitedSet(out)
    /\ \A d \in VisitedSet(out) : ~HiddenPath(d)

\* a finished run that rewrote documents in three directories, one of
\* them a directory it could not list that holds a subdirectory with a
\* README.md, in a tree with a hidden directory holding a README.md
C10Witness ==
    /\ pc = "done" /\ ~dry_run
    /\ Cardinality({d \in VisitedSet(out) : Wrote(out, d)}) >= 3
    /\ \E d \in VisitedSet(out) :
          /\ fs0[d].deny /\ Wrote(out, d)
          /\ \E c \in DirsOf(fs0) :
                c # d /\ IsPrefix(d, c) /\ HadReadme(fs0, c)
    /\ <<".h", README>> \in DOMAIN fs
    /\ fs # fs0

=============================================================================
